---- MODULE Spec2Model ----
(***************************************************************************)
(* Model of the sales-nav-helper core: the job store (state machine and    *)
(* persistence), the CSV exporter (saveProfilesCsv), the CSV header        *)
(* migrator (upgradeCsvHeaders), the lead-list readiness wait              *)
(* (waitForLeadList) and the delay helpers (nextDelaySecs,                 *)
(* waitRandomIncreasing).                                                  *)
(***************************************************************************)
EXTENDS Integers, Sequences, FiniteSets, TLC

VARIABLES
    jobs,        \* jobsManager: in-memory job table, id -> job record
    disk,        \* jobsManager: persisted job files, id -> job record
    clock,       \* wall clock used for createdAt / updatedAt
    lastJobCall, \* the last JobStore call: arguments, result, state before it
    jobsDir,     \* whether the jobs directory (all_jobs) exists
    maxAgeDays,  \* the threshold cleanupOldJobs passes to cleanup
    ensurePc,    \* server startup: position of the ensureJobsDir task
    loadPc,      \* server startup: position of the loadJobs task
    loadTodo,    \* loadJobs: files listed by its scan and not yet parsed
    cleanupPc,   \* server startup: position of the cleanupOldJobs task
    cleanupTodo, \* cleanupOldJobs: files listed by its scan and not yet examined
    deleted,     \* the job files cleanup has deleted: [id, job, loadPc at the deletion]
    csv,         \* the CSV destination file: [exists, content]
    bak,         \* the migrator's backup file (destination + ".bak")
    origin,      \* who last wrote the destination's header: "none", "external", "save", "migrate"
    csvOps,      \* number of saveProfilesCsv / upgradeCsvHeaders calls made so far
    lastSave,    \* the last saveProfilesCsv call: arguments, derived values, outcome
    lastUpgrade, \* the last upgradeCsvHeaders call: arguments, derived values, outcome
    lastOverwrite, \* the latest upgradeCsvHeaders call: whether it changed the destination's bytes, and the bytes before
    env,         \* process.env as read at module load: FAST_MODE, SCRAPER_SPEED_SCALE, FAST_MIN_ROWS
    wpc,         \* waitForLeadList: position of the call in progress
    wlog,        \* waitForLeadList: page primitives invoked by the current call, in order
    wresult,     \* waitForLeadList: outcome of the current call
    wcalls,      \* waitForLeadList: number of calls started so far
    dpc,         \* waitRandomIncreasing: path of the call in progress ("idle" when none)
    dcall,       \* waitRandomIncreasing: label and opts of the current call
    dwaits,      \* waitRandomIncreasing: the page.waitForTimeout calls of the current call, in order
    ddelay,      \* waitRandomIncreasing: the local variable delay of the backoff loop
    dresult,     \* waitRandomIncreasing: outcome of the current call
    lastDelay,   \* the last nextDelaySecs call: arguments, random draw, value
    lastEsc      \* the last esc call: its argument and the field returned

startupVars == <<jobsDir, maxAgeDays, ensurePc, loadPc, loadTodo, cleanupPc, cleanupTodo, deleted>>
jobVars == <<jobs, disk, clock, lastJobCall, startupVars>>
csvVars == <<csv, bak, origin, csvOps, lastSave, lastUpgrade, lastOverwrite>>
waitVars == <<env, wpc, wlog, wresult, wcalls>>
delayVars == <<dpc, dcall, dwaits, ddelay, dresult, lastDelay>>
vars == <<jobs, disk, clock, lastJobCall,
          jobsDir, maxAgeDays, ensurePc, loadPc, loadTodo, cleanupPc, cleanupTodo, deleted,
          csv, bak, origin, csvOps, lastSave, lastUpgrade,
          lastOverwrite,
          env, wpc, wlog, wresult, wcalls,
          dpc, dcall, dwaits, ddelay, dresult, lastDelay, lastEsc>>

-----------------------------------------------------------------------------
(* Bounds of the model *)

MaxJobs == 2
MaxClock == 1
MaxCsvOps == 2
MaxWaitCalls == 2
RandSteps == 2
MaxEscLen == 3

-----------------------------------------------------------------------------
(* JobStore (utils/jobsManager): the job state machine and its persistence *)

JobIds == 1..MaxJobs

Statuses == {"queued", "running", "completed", "failed", "cancelled"}

TerminalStatuses == {"completed", "failed", "cancelled"}

NoJob == [status |-> "none", createdAt |-> 0, updatedAt |-> 0]

\* The transition table of the job state machine.
AllowedTransitions ==
    { <<"queued", "running">>, <<"running", "completed">>, <<"running", "failed">>,
      <<"queued", "cancelled">>, <<"running", "cancelled">> }

NoJobCall ==
    [op |-> "none", id |-> 0, from |-> "none", to |-> "none", result |-> "none",
     jobBefore |-> NoJob, diskBefore |-> NoJob]

\* create(params): a new job in queued, persisted before return.
create(id) ==
    /\ jobs[id] = NoJob
    /\ LET job == [status |-> "queued", createdAt |-> clock, updatedAt |-> clock]
       IN /\ jobs' = [jobs EXCEPT ![id] = job]
          /\ disk' = [disk EXCEPT ![id] = job]
          /\ lastJobCall' = [op |-> "create", id |-> id, from |-> "none", to |-> "queued",
                             result |-> "ok", jobBefore |-> jobs[id], diskBefore |-> disk[id]]
    /\ UNCHANGED clock

\* Whether transition(id, newStatus) is accepted from the job's current status.
TransitionAllowedMutant(from, to) ==
    \/ <<from, to>> \in AllowedTransitions
    \/ <<from, to>> = <<"queued", "completed">>

TransitionAllowed(from, to) == <<from, to>> \in AllowedTransitions

\* transition(id, newStatus): validated against the table; on success updatedAt
\* is set and the persisted record rewritten; on failure nothing changes.
transition(id, newStatus) ==
    /\ jobs[id] # NoJob
    /\ IF TransitionAllowed(jobs[id].status, newStatus)
       THEN LET job == [jobs[id] EXCEPT !.status = newStatus, !.updatedAt = clock]
            IN /\ jobs' = [jobs EXCEPT ![id] = job]
               /\ disk' = [disk EXCEPT ![id] = job]
               /\ lastJobCall' = [op |-> "transition", id |-> id, from |-> jobs[id].status,
                                  to |-> newStatus, result |-> "ok",
                                  jobBefore |-> jobs[id], diskBefore |-> disk[id]]
       ELSE /\ UNCHANGED <<jobs, disk>>
            /\ lastJobCall' = [op |-> "transition", id |-> id, from |-> jobs[id].status,
                               to |-> newStatus, result |-> "InvalidTransition",
                               jobBefore |-> jobs[id], diskBefore |-> disk[id]]
    /\ UNCHANGED clock

\* Time passes between calls.
Tick ==
    /\ clock < MaxClock
    /\ clock' = clock + 1
    /\ UNCHANGED <<jobs, disk, lastJobCall>>

\* The startup tasks have run to completion and the directory exists.
StartupIdle ==
    /\ jobsDir = TRUE
    /\ maxAgeDays = 3
    /\ ensurePc = "done"
    /\ loadPc = "done"
    /\ loadTodo = {}
    /\ cleanupPc = "done"
    /\ cleanupTodo = {}
    /\ deleted = {}

JobsInit ==
    /\ jobs = [id \in JobIds |-> NoJob]
    /\ disk = [id \in JobIds |-> NoJob]
    /\ clock = 0
    /\ lastJobCall = NoJobCall
    /\ StartupIdle

Create ==
    \E id \in JobIds :
        create(id) /\ UNCHANGED <<startupVars, csvVars, waitVars, delayVars, lastEsc>>

Transition ==
    \E id \in JobIds, s \in Statuses :
        transition(id, s) /\ UNCHANGED <<startupVars, csvVars, waitVars, delayVars, lastEsc>>

JobTick == Tick /\ UNCHANGED <<startupVars, csvVars, waitVars, delayVars, lastEsc>>

-----------------------------------------------------------------------------
(* Server startup (server.js): ensureJobsDir, loadJobs and cleanupOldJobs   *)
(* are called one after the other and none is awaited; each runs as its own *)
(* task, suspended at every file operation.                                 *)

\* The job files present in the jobs directory.
JobFiles == { id \in JobIds : disk[id] # NoJob }

\* The next file in directory order.
NextFile(todo) == CHOOSE id \in todo : \A other \in todo : id <= other

\* Age of a job in days.
Age(job) == clock - job.createdAt

\* cleanup(maxAgeDays): whether the persisted file of the job is deleted.
CleanupDeletesMutantAnyStatus(job, threshold) == Age(job) > threshold

CleanupDeletes(job, threshold) ==
    /\ job.status \in TerminalStatuses
    /\ Age(job) > threshold

\* The three calls of server.js: each task runs up to its first file
\* operation and is left pending; its rejection is swallowed by catch.
StartServer ==
    /\ ensurePc = "idle" /\ loadPc = "idle" /\ cleanupPc = "idle"
    /\ ensurePc' = "called"
    /\ loadPc' = "called"
    /\ cleanupPc' = "called"
    /\ UNCHANGED <<jobs, disk, clock, lastJobCall, jobsDir, maxAgeDays, loadTodo,
                   cleanupTodo, deleted>>
    /\ UNCHANGED <<csvVars, waitVars, delayVars, lastEsc>>

\* ensureJobsDir: the directory is created if missing.
EnsureDir ==
    /\ ensurePc = "called"
    /\ jobsDir' = TRUE
    /\ ensurePc' = "done"
    /\ UNCHANGED <<jobs, disk, clock, lastJobCall, maxAgeDays, loadPc, loadTodo,
                   cleanupPc, cleanupTodo, deleted>>
    /\ UNCHANGED <<csvVars, waitVars, delayVars, lastEsc>>

\* load(): the scan of the jobs directory; it fails when there is none.
LoadScan ==
    /\ loadPc = "called"
    /\ IF jobsDir
       THEN /\ loadTodo' = JobFiles
            /\ loadPc' = IF JobFiles = {} THEN "done" ELSE "scanned"
       ELSE /\ loadPc' = "failed"
            /\ UNCHANGED loadTodo
    /\ UNCHANGED <<jobs, disk, clock, lastJobCall, jobsDir, maxAgeDays, ensurePc,
                   cleanupPc, cleanupTodo, deleted>>
    /\ UNCHANGED <<csvVars, waitVars, delayVars, lastEsc>>

\* load(): one listed file is parsed into memory; a file that cannot be read
\* is skipped.
LoadParse ==
    /\ loadPc = "scanned"
    /\ LET id == NextFile(loadTodo)
       IN /\ jobs' = IF disk[id] # NoJob THEN [jobs EXCEPT ![id] = disk[id]] ELSE jobs
          /\ loadTodo' = loadTodo \ {id}
          /\ loadPc' = IF loadTodo = {id} THEN "done" ELSE "scanned"
    /\ UNCHANGED <<disk, clock, lastJobCall, jobsDir, maxAgeDays, ensurePc,
                   cleanupPc, cleanupTodo, deleted>>
    /\ UNCHANGED <<csvVars, waitVars, delayVars, lastEsc>>

\* cleanup(maxAgeDays): the scan of the jobs directory.
CleanupScan ==
    /\ cleanupPc = "called"
    /\ IF jobsDir
       THEN /\ cleanupTodo' = JobFiles
            /\ cleanupPc' = IF JobFiles = {} THEN "done" ELSE "scanned"
       ELSE /\ cleanupPc' = "failed"
            /\ UNCHANGED cleanupTodo
    /\ UNCHANGED <<jobs, disk, clock, lastJobCall, jobsDir, maxAgeDays, ensurePc,
                   loadPc, loadTodo, deleted>>
    /\ UNCHANGED <<csvVars, waitVars, delayVars, lastEsc>>

\* cleanup(maxAgeDays): one listed file is examined and deleted if its job is
\* terminal and older than the threshold.
CleanupStep ==
    /\ cleanupPc = "scanned"
    /\ LET id == NextFile(cleanupTodo)
       IN /\ IF disk[id] # NoJob /\ CleanupDeletes(disk[id], maxAgeDays)
             THEN /\ disk' = [disk EXCEPT ![id] = NoJob]
                  /\ deleted' = deleted \cup {[id |-> id, job |-> disk[id], loadPc |-> loadPc]}
             ELSE UNCHANGED <<disk, deleted>>
          /\ cleanupTodo' = cleanupTodo \ {id}
          /\ cleanupPc' = IF cleanupTodo = {id} THEN "done" ELSE "scanned"
    /\ UNCHANGED <<jobs, clock, lastJobCall, jobsDir, maxAgeDays, ensurePc,
                   loadPc, loadTodo>>
    /\ UNCHANGED <<csvVars, waitVars, delayVars, lastEsc>>

\* Ages, in days, of the job files found at startup, and the thresholds.
JobAges == {3, 10}

Thresholds == {0, 3}

\* The process starts: nothing in memory, the job files of earlier runs on
\* disk (none when there is no jobs directory), no task called yet.
StartupInit ==
    /\ jobs = [id \in JobIds |-> NoJob]
    /\ clock = 10
    /\ disk \in [JobIds -> {NoJob} \cup
                    { [status |-> st, createdAt |-> clock - age, updatedAt |-> clock - age] :
                        st \in Statuses, age \in JobAges }]
    /\ jobsDir \in BOOLEAN
    /\ ~jobsDir => JobFiles = {}
    /\ maxAgeDays \in Thresholds
    /\ lastJobCall = NoJobCall
    /\ ensurePc = "idle"
    /\ loadPc = "idle"
    /\ loadTodo = {}
    /\ cleanupPc = "idle"
    /\ cleanupTodo = {}
    /\ deleted = {}

-----------------------------------------------------------------------------
(* Text.  A string is a sequence of symbols: the characters that matter to  *)
(* CSV (quote, comma, CR, LF, NUL, space, byte-order mark) one by one, and  *)
(* every run of ordinary characters as one symbol ("Full Name", "a").       *)

QUOTE == "\""
COMMA == ","
CR == "\r"
LF == "\n"
NUL == "NUL"
SP == " "
BOM == "BOM"

\* JavaScript null / undefined, kept apart from every string by a reserved symbol.
Null == <<"NULL">>

\* String.prototype.toLowerCase on one symbol.
LowerSym(c) ==
    CASE c = "Full Name" -> "full name"
      [] c = "Name" -> "name"
      [] c = "First Name" -> "first name"
      [] c = "Last Name" -> "last name"
      [] c = "Title" -> "title"
      [] c = "Company" -> "company"
      [] c = "Person Location" -> "person location"
      [] c = "Location" -> "location"
      [] c = "LinkedIn URL" -> "linkedin url"
      [] c = "LinkedIn" -> "linkedin"
      [] c = "Website" -> "website"
      [] c = "WEBSITE" -> "website"
      [] c = "Domain" -> "domain"
      [] c = "Email" -> "email"
      [] c = "EMAIL" -> "email"
      [] c = "Notes" -> "notes"
      [] OTHER -> c

toLowerCase(s) == [i \in 1..Len(s) |-> LowerSym(s[i])]

\* String.prototype.includes(needle) for a needle of ordinary characters: the
\* needle lies within one symbol of s.
SymIncludes(c, needle) ==
    CASE needle = "website" -> c \in {"website"}
      [] needle = "domain" -> c \in {"domain", "domain1", "domain2", "domain3"}
      [] OTHER -> c = needle

includes(s, needle) == \E i \in 1..Len(s) : SymIncludes(s[i], needle)

\* Characters String.prototype.trim removes (the byte-order mark U+FEFF is one).
IsJsSpace(c) == c \in {SP, CR, LF, BOM}

RECURSIVE TrimLeft(_)
TrimLeft(s) ==
    IF s # <<>> /\ IsJsSpace(s[1]) THEN TrimLeft(Tail(s)) ELSE s

RECURSIVE TrimRight(_)
TrimRight(s) ==
    IF s # <<>> /\ IsJsSpace(s[Len(s)]) THEN TrimRight(SubSeq(s, 1, Len(s) - 1)) ELSE s

trim(s) == TrimRight(TrimLeft(s))

\* s.replace(/\u0000/g, '')
StripNul(s) == SelectSeq(s, LAMBDA c : c # NUL)

\* s.replace(/\r?\n/g, ' ')
RECURSIVE CollapseLineBreaks(_)
CollapseLineBreaks(s) ==
    IF s = <<>> THEN <<>>
    ELSE IF Len(s) >= 2 /\ s[1] = CR /\ s[2] = LF
         THEN <<SP>> \o CollapseLineBreaks(SubSeq(s, 3, Len(s)))
    ELSE IF s[1] = LF THEN <<SP>> \o CollapseLineBreaks(Tail(s))
    ELSE <<s[1]>> \o CollapseLineBreaks(Tail(s))

\* s.replace(/"/g, '""')
RECURSIVE DoubleQuotes(_)
DoubleQuotes(s) ==
    IF s = <<>> THEN <<>>
    ELSE IF s[1] = QUOTE THEN <<QUOTE, QUOTE>> \o DoubleQuotes(Tail(s))
    ELSE <<s[1]>> \o DoubleQuotes(Tail(s))

RECURSIVE Join(_, _)
Join(parts, sep) ==
    IF parts = <<>> THEN <<>>
    ELSE IF Len(parts) = 1 THEN parts[1]
    ELSE parts[1] \o sep \o Join(Tail(parts), sep)

-----------------------------------------------------------------------------
(* Reading CSV: the records of a file as csv-parse reads them with the      *)
(* options upgradeCsvHeaders passes (bom, trim, skip_empty_lines,           *)
(* relax_column_count).  A record is the sequence of its fields.            *)

RECURSIVE TrimRightSp(_)
TrimRightSp(s) ==
    IF s # <<>> /\ s[Len(s)] = SP THEN TrimRightSp(SubSeq(s, 1, Len(s) - 1)) ELSE s

EndField(fld, mode) == IF mode = "unq" THEN TrimRightSp(fld) ELSE fld

\* skip_empty_lines: a line with no character gives no record.
EndRecord(recs, cur, fld, mode) ==
    IF cur = <<>> /\ fld = <<>> /\ mode = "start" THEN recs
    ELSE Append(recs, Append(cur, EndField(fld, mode)))

\* mode: "start" at the start of a field, "unq" inside an unquoted field,
\* "inq" inside a quoted field, "postq" after the closing quote.
RECURSIVE ParseFrom(_, _, _, _, _, _)
ParseFrom(s, i, recs, cur, fld, mode) ==
    IF i > Len(s) THEN EndRecord(recs, cur, fld, mode)
    ELSE LET c == s[i] IN
      IF mode = "inq"
      THEN IF c = QUOTE
           THEN IF i < Len(s) /\ s[i + 1] = QUOTE
                THEN ParseFrom(s, i + 2, recs, cur, Append(fld, QUOTE), "inq")
                ELSE ParseFrom(s, i + 1, recs, cur, fld, "postq")
           ELSE ParseFrom(s, i + 1, recs, cur, Append(fld, c), "inq")
      ELSE IF c = COMMA
           THEN ParseFrom(s, i + 1, recs, Append(cur, EndField(fld, mode)), <<>>, "start")
      ELSE IF c = CR /\ i < Len(s) /\ s[i + 1] = LF
           THEN ParseFrom(s, i + 2, EndRecord(recs, cur, fld, mode), <<>>, <<>>, "start")
      ELSE IF c \in {CR, LF}
           THEN ParseFrom(s, i + 1, EndRecord(recs, cur, fld, mode), <<>>, <<>>, "start")
      ELSE IF c = QUOTE /\ mode = "start"
           THEN ParseFrom(s, i + 1, recs, cur, fld, "inq")
      ELSE IF c = SP /\ mode \in {"start", "postq"}
           THEN ParseFrom(s, i + 1, recs, cur, fld, mode)
      ELSE ParseFrom(s, i + 1, recs, cur, Append(fld, c), "unq")

\* A line break ends a record when it lies outside quotes, that is when an even
\* number of quotes precedes it.
BreakPositions(s) ==
    {i \in 1..Len(s) :
        /\ s[i] \in {CR, LF}
        /\ Cardinality({j \in 1..(i - 1) : s[j] = QUOTE}) % 2 = 0}

\* The lines of s from position start on, the empty ones included.
LinesFrom(s, start) ==
    LET brk == BreakPositions(s)
        RECURSIVE from(_)
        from(i) ==
            IF i > Len(s) THEN <<>>
            ELSE LET nb == {b \in brk : b >= i}
                 IN IF nb = {} THEN <<SubSeq(s, i, Len(s))>>
                    ELSE LET b == CHOOSE x \in nb : \A y \in nb : x <= y
                         IN <<SubSeq(s, i, b - 1)>> \o from(b + 1)
    IN from(start)

RECURSIVE ParseLines(_)
ParseLines(lines) ==
    IF lines = <<>> THEN <<>>
    ELSE ParseFrom(lines[1], 1, <<>>, <<>>, <<>>, "start") \o ParseLines(Tail(lines))

\* bom: true drops a leading byte-order mark.
Records(content) ==
    ParseLines(LinesFrom(content, IF content # <<>> /\ content[1] = BOM THEN 2 ELSE 1))

-----------------------------------------------------------------------------
(* CsvExporter: utils/saveProfilesCsv.js *)

BASE_COLUMNS ==
    << [key |-> "name", header |-> <<"Full Name">>],
       [key |-> "first_name", header |-> <<"First Name">>],
       [key |-> "last_name", header |-> <<"Last Name">>],
       [key |-> "title", header |-> <<"Title">>],
       [key |-> "company", header |-> <<"Company">>],
       [key |-> "person_location", header |-> <<"Person Location">>],
       [key |-> "person_title", header |-> <<"LinkedIn URL">>] >>

EXT_WEBSITE == Append(BASE_COLUMNS, [key |-> "domain", header |-> <<"Website">>])

escMutantNoDoubling(value) ==
    IF value = Null THEN <<QUOTE, QUOTE>>
    ELSE <<QUOTE>> \o trim(CollapseLineBreaks(StripNul(value))) \o <<QUOTE>>

esc(value) ==
    IF value = Null THEN <<QUOTE, QUOTE>>
    ELSE LET s == trim(CollapseLineBreaks(StripNul(value)))
         IN <<QUOTE>> \o DoubleQuotes(s) \o <<QUOTE>>

\* A file of the local filesystem.
NoFile == [exists |-> FALSE, content |-> <<>>]

File(content) == [exists |-> TRUE, content |-> content]

\* One fs call (fs.writeFile / fs.appendFile) and its outcomes: "ok"; "eopen",
\* the call fails before the file is opened (EACCES, ENOENT) and the file is as
\* it was; "ewrite", the call fails after the file was opened (ENOSPC, EIO):
\* writeFile has truncated it, appendFile has created it if it was missing.
fsCall(file, call, outcome) ==
    CASE outcome = "eopen" -> file
      [] outcome = "ewrite" ->
            IF call.op = "writeFile" THEN File(<<>>) ELSE File(file.content)
      [] OTHER ->
            IF call.op = "writeFile" THEN File(call.data)
            ELSE File(file.content \o call.data)

\* Where a sequence of fs calls may fail: nowhere (at = 0), or at call number
\* `at` with the given outcome, the calls after it not being made.
Faults ==
    {[at |-> 0, kind |-> "ok"]} \cup
    {[at |-> k, kind |-> e] : k \in 1..2, e \in {"eopen", "ewrite"}}

\* A sequence of fs calls on the files fs = [csv, bak], each call naming its
\* target; the sequence stops at the call that fails.
RECURSIVE fsCalls(_, _, _, _)
fsCalls(fs, calls, fault, k) ==
    IF k > Len(calls) THEN fs
    ELSE LET t == calls[k].target IN
         IF fault.at = k THEN [fs EXCEPT ![t] = fsCall(fs[t], calls[k], fault.kind)]
         ELSE fsCalls([fs EXCEPT ![t] = fsCall(fs[t], calls[k], "ok")], calls, fault, k + 1)

\* readHeaderLine: the first line of the file, null if the file is missing or
\* holds no line.  readline ends a line at CR LF, LF or CR.
RECURSIVE FirstLine(_)
FirstLine(s) ==
    IF s = <<>> \/ s[1] \in {CR, LF} THEN <<>> ELSE <<s[1]>> \o FirstLine(Tail(s))

readHeaderLine(file) ==
    IF ~file.exists \/ file.content = <<>> THEN Null ELSE FirstLine(file.content)

chooseColumnsForExistingHeaderMutant(headerLine) == EXT_WEBSITE

chooseColumnsForExistingHeader(headerLine) ==
    LET lc == toLowerCase(IF headerLine = Null THEN <<>> ELSE headerLine)
        hasWebsite == includes(lc, "website") \/ includes(lc, "domain")
    IN IF hasWebsite THEN EXT_WEBSITE ELSE BASE_COLUMNS

ColumnKeys(columns) == {columns[i].key : i \in 1..Len(columns)}

\* ensureKeysForColumns: every row gets '' for each column key it does not own.
ensureKeysForColumns(rows, columns) ==
    [n \in 1..Len(rows) |->
        [k \in (DOMAIN rows[n]) \cup ColumnKeys(columns) |->
            IF k \in DOMAIN rows[n] THEN rows[n][k] ELSE <<>>]]

\* r[c.key] ?? ''
OrEmpty(v) == IF v = Null THEN <<>> ELSE v

HeaderLine(columns) ==
    Join([i \in 1..Len(columns) |-> esc(columns[i].header)], <<COMMA>>) \o <<CR, LF>>

RowLine(r, columns) ==
    Join([i \in 1..Len(columns) |-> esc(OrEmpty(r[columns[i].key]))], <<COMMA>>)

Body(rows, columns) ==
    Join([n \in 1..Len(rows) |-> RowLine(rows[n], columns)], <<CR, LF>>) \o <<CR, LF>>

\* The fs calls saveProfilesCsv makes, lines 103-113.
WriteCallsMutantAlwaysHeader(shouldAppend, fileExists, prefix, header, body) ==
    IF shouldAppend
    THEN << [target |-> "csv", op |-> "appendFile", data |-> prefix \o header \o body] >>
    ELSE << [target |-> "csv", op |-> "writeFile", data |-> prefix \o header \o body] >>

WriteCallsMutantHeaderOnAppend(shouldAppend, fileExists, prefix, header, body) ==
    IF shouldAppend
    THEN IF ~fileExists
         THEN << [target |-> "csv", op |-> "appendFile", data |-> prefix \o header \o body] >>
         ELSE << [target |-> "csv", op |-> "appendFile", data |-> header \o body] >>
    ELSE << [target |-> "csv", op |-> "writeFile", data |-> prefix \o header \o body] >>

WriteCallsMutantSplit(shouldAppend, fileExists, prefix, header, body) ==
    IF shouldAppend
    THEN IF ~fileExists
         THEN << [target |-> "csv", op |-> "appendFile", data |-> prefix \o header],
                 [target |-> "csv", op |-> "appendFile", data |-> body] >>
         ELSE << [target |-> "csv", op |-> "appendFile", data |-> body] >>
    ELSE << [target |-> "csv", op |-> "writeFile", data |-> prefix \o header],
            [target |-> "csv", op |-> "appendFile", data |-> body] >>

WriteCallsMutantOverwrite(shouldAppend, fileExists, prefix, header, body) ==
    IF shouldAppend
    THEN IF ~fileExists
         THEN << [target |-> "csv", op |-> "appendFile", data |-> prefix \o header \o body] >>
         ELSE << [target |-> "csv", op |-> "writeFile", data |-> body] >>
    ELSE << [target |-> "csv", op |-> "writeFile", data |-> prefix \o header \o body] >>

WriteCalls(shouldAppend, fileExists, prefix, header, body) ==
    IF shouldAppend
    THEN IF ~fileExists
         THEN << [target |-> "csv", op |-> "appendFile", data |-> prefix \o header \o body] >>
         ELSE << [target |-> "csv", op |-> "appendFile", data |-> body] >>
    ELSE << [target |-> "csv", op |-> "writeFile", data |-> prefix \o header \o body] >>

NoSave ==
    [rows |-> <<>>, append |-> "undefined", includeBOM |-> TRUE, fileExists |-> FALSE,
     columns |-> <<>>, fault |-> [at |-> 0, kind |-> "ok"], result |-> "none",
     before |-> NoFile]

\* saveProfilesCsv(rows, { filePath, append, includeBOM }), the destination
\* being the file csv.
saveProfilesCsv(rows, append, includeBOM, fault) ==
    IF rows = <<>>
    THEN /\ fault.at = 0
         /\ lastSave' = [rows |-> rows, append |-> append, includeBOM |-> includeBOM,
                         fileExists |-> csv.exists, columns |-> <<>>, fault |-> fault,
                         result |-> "noop", before |-> csv]
         /\ UNCHANGED <<csv, origin>>
    ELSE LET fileExists == csv.exists
             shouldAppend == append = "true" \/ (append = "undefined" /\ fileExists)
             prefix == IF includeBOM THEN <<BOM>> ELSE <<>>
         IN /\ fault.at <= Len(WriteCalls(shouldAppend, fileExists, <<>>, <<>>, <<>>))
            /\ \E columns \in {IF fileExists
                               THEN chooseColumnsForExistingHeader(readHeaderLine(csv))
                               ELSE EXT_WEBSITE} :
               \E filled \in {ensureKeysForColumns(rows, columns)} :
               \E header \in {HeaderLine(columns)}, body \in {Body(filled, columns)} :
               \E after \in {fsCalls([csv |-> csv, bak |-> bak],
                                     WriteCalls(shouldAppend, fileExists, prefix, header, body),
                                     fault, 1).csv} :
                  /\ csv' = after
                  /\ origin' = IF after = csv THEN origin
                               ELSE IF shouldAppend /\ fileExists THEN origin
                               ELSE "save"
                  /\ lastSave' = [rows |-> rows, append |-> append,
                                  includeBOM |-> includeBOM, fileExists |-> fileExists,
                                  columns |-> columns, fault |-> fault,
                                  result |-> IF fault.at = 0 THEN "ok" ELSE "error",
                                  before |-> csv]

-----------------------------------------------------------------------------
(* SchemaMigrator: utils/upgradeCsvHeaders.js *)

CANONICAL_HEADERS ==
    << [header |-> <<"Full Name">>,
        aliases |-> << <<"Full Name">>, <<"Name">>, <<"full name">>, <<"fullname">>,
                       <<"full_name">> >>],
       [header |-> <<"First Name">>,
        aliases |-> << <<"First Name">>, <<"first_name">>, <<"first name">>,
                       <<"firstname">> >>],
       [header |-> <<"Last Name">>,
        aliases |-> << <<"Last Name">>, <<"last_name">>, <<"last name">>, <<"lastname">> >>],
       [header |-> <<"Title">>, aliases |-> << <<"Title">>, <<"title">> >>],
       [header |-> <<"Company">>, aliases |-> << <<"Company">>, <<"company">> >>],
       [header |-> <<"Person Location">>,
        aliases |-> << <<"Person Location">>, <<"Location">>, <<"person_location">>,
                       <<"person location">>, <<"location">> >>],
       [header |-> <<"LinkedIn URL">>,
        aliases |-> << <<"LinkedIn URL">>, <<"LinkedIn">>, <<"person_title">>,
                       <<"linkedin url">>, <<"linkedin">> >>],
       [header |-> <<"Website">>,
        aliases |-> << <<"Website">>, <<"domain">>, <<"Domain">>, <<"domain1">>,
                       <<"domain2">>, <<"domain3">> >>] >>

Min(a, b) == IF a < b THEN a ELSE b

\* The distinct elements of a sequence, in order of first occurrence.
RECURSIVE Dedup(_, _)
Dedup(s, seen) ==
    IF s = <<>> THEN <<>>
    ELSE IF s[1] \in seen THEN Dedup(Tail(s), seen)
    ELSE <<s[1]>> \o Dedup(Tail(s), seen \cup {s[1]})

\* csv-parse, columns: true: the record as an object keyed by the header
\* names; a short record has no key for the columns it lacks, the fields
\* beyond the header are dropped, a repeated name keeps its last field.
\* keys is Object.keys of the object: its keys in insertion order.
RecordObject(names, rec) ==
    LET n == Min(Len(names), Len(rec))
        last(name) == CHOOSE i \in 1..n :
                         /\ names[i] = name
                         /\ \A j \in 1..n : names[j] = name => j <= i
    IN [keys |-> Dedup(SubSeq(names, 1, n), {}),
        val |-> [name \in {names[i] : i \in 1..n} |-> rec[last(name)]]]

\* parse(raw, { columns: true, ... }): the data rows as objects.
parse(raw) ==
    LET recs == Records(raw)
    IN IF recs = <<>> THEN <<>>
       ELSE [n \in 1..(Len(recs) - 1) |-> RecordObject(recs[1], recs[n + 1])]

\* ciFind: the first header equal to name ignoring case; Null when there is none
\* (or when it is the empty string, which the callers treat alike).
ciFind(headers, name) ==
    LET needle == toLowerCase(name)
        hits == {i \in 1..Len(headers) : toLowerCase(headers[i]) = needle}
    IN IF hits = {} THEN Null
       ELSE LET i == CHOOSE i \in hits : \A j \in hits : i <= j
            IN IF headers[i] = <<>> THEN Null ELSE headers[i]

RECURSIVE getFirstAliasHeader(_, _)
getFirstAliasHeader(headers, aliases) ==
    IF aliases = <<>> THEN Null
    ELSE LET found == ciFind(headers, aliases[1])
         IN IF found # Null THEN found ELSE getFirstAliasHeader(headers, Tail(aliases))

\* row[h] ?? ''
RowGet(row, h) == IF h \in DOMAIN row.val THEN row.val[h] ELSE <<>>

RECURSIVE FirstNonEmpty(_, _, _)
FirstNonEmpty(row, headers, aliases) ==
    IF aliases = <<>> THEN Null
    ELSE LET found == ciFind(headers, aliases[1])
         IN IF found # Null /\ found \in DOMAIN row.val /\ trim(row.val[found]) # <<>>
            THEN row.val[found]
            ELSE FirstNonEmpty(row, headers, Tail(aliases))

getValue(row, headers, aliases) ==
    LET v == FirstNonEmpty(row, headers, aliases)
        fallback == getFirstAliasHeader(headers, aliases)
    IN IF v # Null THEN v
       ELSE IF fallback # Null THEN RowGet(row, fallback) ELSE <<>>

canonicalOrder == [i \in 1..Len(CANONICAL_HEADERS) |-> CANONICAL_HEADERS[i].header]

hasEmail(headers) == \E i \in 1..Len(headers) : toLowerCase(headers[i]) = <<"email">>

alreadyCanonicalMutantExact(headers) ==
    /\ ~hasEmail(headers)
    /\ Len(headers) = Len(canonicalOrder)
    /\ \A i \in 1..Len(canonicalOrder) :
          toLowerCase(headers[i]) = toLowerCase(canonicalOrder[i])

alreadyCanonical(headers) ==
    /\ ~hasEmail(headers)
    /\ Len(headers) >= Len(canonicalOrder)
    /\ \A i \in 1..Len(canonicalOrder) :
          toLowerCase(headers[i]) = toLowerCase(canonicalOrder[i])

usedHeaders(headers) ==
    {toLowerCase(getFirstAliasHeader(headers, CANONICAL_HEADERS[i].aliases)) :
        i \in {j \in 1..Len(CANONICAL_HEADERS) :
                  getFirstAliasHeader(headers, CANONICAL_HEADERS[j].aliases) # Null}}

IsAlias(h) ==
    \E i \in 1..Len(CANONICAL_HEADERS) :
       \E a \in 1..Len(CANONICAL_HEADERS[i].aliases) :
          toLowerCase(CANONICAL_HEADERS[i].aliases[a]) = toLowerCase(h)

\* The migrated row (lines 81-93): the canonical columns, then every header
\* that is neither Email nor a used header.
newRow(row, headers, used) ==
    LET kept == SelectSeq(headers, LAMBDA h : toLowerCase(h) # <<"email">>
                                              /\ toLowerCase(h) \notin used)
        keptSet == {kept[i] : i \in 1..Len(kept)}
        aliasesOf(h) == CANONICAL_HEADERS[CHOOSE i \in 1..Len(CANONICAL_HEADERS) :
                                             CANONICAL_HEADERS[i].header = h].aliases
        canonSet == {canonicalOrder[i] : i \in 1..Len(canonicalOrder)}
    IN [keys |-> canonicalOrder \o SelectSeq(kept, LAMBDA h : h \notin canonSet),
        val |-> [h \in canonSet \cup keptSet |->
                   IF h \in keptSet THEN RowGet(row, h)
                   ELSE getValue(row, headers, aliasesOf(h))]]

extraHeadersMutantKeepEmail(headers) ==
    SelectSeq(headers, LAMBDA h : ~IsAlias(h))

extraHeaders(headers) ==
    SelectSeq(headers, LAMBDA h : toLowerCase(h) # <<"email">> /\ ~IsAlias(h))

finalHeaders(headers) == canonicalOrder \o extraHeaders(headers)

\* csv-stringify: a field is quoted when it holds a quote, the delimiter or
\* the record delimiter (LF).
StringifyField(v) ==
    IF \E i \in 1..Len(v) : v[i] \in {QUOTE, COMMA, LF}
    THEN <<QUOTE>> \o DoubleQuotes(v) \o <<QUOTE>>
    ELSE v

\* stringify(newRows, { header: true, columns, bom: true })
stringify(rows, columns) ==
    LET line(r) == Join([i \in 1..Len(columns) |-> StringifyField(RowGet(r, columns[i]))],
                        <<COMMA>>) \o <<LF>>
        RECURSIVE lines(_)
        lines(n) == IF n > Len(rows) THEN <<>> ELSE line(rows[n]) \o lines(n + 1)
    IN <<BOM>> \o Join([i \in 1..Len(columns) |-> StringifyField(columns[i])], <<COMMA>>)
          \o <<LF>> \o lines(1)

\* The fs calls of lines 109-110.
UpgradeCallsMutantOriginalFirst(backup, raw, out) ==
    << [target |-> "csv", op |-> "writeFile", data |-> out] >> \o
    (IF backup THEN << [target |-> "bak", op |-> "writeFile", data |-> raw] >> ELSE <<>>)

UpgradeCalls(backup, raw, out) ==
    (IF backup THEN << [target |-> "bak", op |-> "writeFile", data |-> raw] >> ELSE <<>>) \o
    << [target |-> "csv", op |-> "writeFile", data |-> out] >>

\* previous: the upgradeCsvHeaders call made immediately before this one, if
\* the operation before this one was such a call.
NoUpgrade ==
    [backup |-> TRUE, fault |-> [at |-> 0, kind |-> "ok"], result |-> "none",
     headers |-> <<>>, columns |-> <<>>, before |-> NoFile, bakBefore |-> NoFile,
     previous |-> [result |-> "none", backup |-> TRUE, before |-> NoFile]]

NoOverwrite == [done |-> FALSE, backup |-> TRUE, raw |-> <<>>]

\* upgradeCsvHeaders(filePath, { backup }), the file being csv.  (A value that
\* is used more than once is bound with \E over a singleton.)
upgradeCsvHeaders(backup, fault) ==
    LET call(result, headers, columns) ==
            [backup |-> backup, fault |-> fault, result |-> result, headers |-> headers,
             columns |-> columns, before |-> csv, bakBefore |-> bak,
             previous |-> [result |-> lastUpgrade.result, backup |-> lastUpgrade.backup,
                           before |-> lastUpgrade.before]]
    IN IF ~csv.exists
       THEN \* fs.readFile rejects
            /\ fault.at = 0
            /\ lastUpgrade' = call("error", <<>>, <<>>)
            /\ lastOverwrite' = NoOverwrite
            /\ UNCHANGED <<csv, bak, origin>>
       ELSE \E raw \in {csv.content} : \E rows \in {parse(raw)} :
            IF rows = <<>>
            THEN /\ fault.at = 0
                 /\ lastUpgrade' = call("empty", <<>>, <<>>)
                 /\ lastOverwrite' = [done |-> FALSE, backup |-> backup, raw |-> raw]
                 /\ UNCHANGED <<csv, bak, origin>>
            ELSE \E headers \in {rows[1].keys} :
                 IF alreadyCanonical(headers)
                 THEN /\ fault.at = 0
                      /\ lastUpgrade' = call("already-canonical", headers, <<>>)
                      /\ lastOverwrite' = [done |-> FALSE, backup |-> backup, raw |-> raw]
                      /\ UNCHANGED <<csv, bak, origin>>
                 ELSE /\ fault.at <= Len(UpgradeCalls(backup, <<>>, <<>>))
                      /\ \E used \in {usedHeaders(headers)},
                            columns \in {finalHeaders(headers)} :
                         \E newRows \in {[n \in 1..Len(rows) |->
                                            newRow(rows[n], headers, used)]} :
                         \E out \in {stringify(newRows, columns)} :
                         \E after \in {fsCalls([csv |-> csv, bak |-> bak],
                                               UpgradeCalls(backup, raw, out), fault, 1)} :
                            /\ csv' = after.csv
                            /\ bak' = after.bak
                            /\ origin' = IF after.csv = csv THEN origin ELSE "migrate"
                            /\ lastOverwrite' =
                                  [done |-> after.csv # csv, backup |-> backup, raw |-> raw]
                            /\ lastUpgrade' =
                                  call(IF fault.at = 0 THEN "changed" ELSE "error",
                                       headers, columns)

\* Profile records handed to saveProfilesCsv.
RowA == [k \in {"name"} |-> <<"a">>]

RowB ==
    [k \in {"name", "title", "company", "domain"} |->
        CASE k = "name" -> <<"b", COMMA, QUOTE, "c">>
          [] k = "title" -> <<SP, "a", NUL>>
          [] k = "company" -> <<"a", CR, LF, "b", LF>>
          [] OTHER -> Null]

Batches == { <<>>, <<RowA>>, <<RowB, RowA>> }

AppendModes == {"true", "false", "undefined"}

\* Destinations found on disk before the first call.
ExtHeaderFile ==
    File(<<BOM>> \o HeaderLine(EXT_WEBSITE) \o Body(ensureKeysForColumns(<<RowA>>, EXT_WEBSITE), EXT_WEBSITE))

BaseHeaderFile ==
    File(<<BOM>> \o HeaderLine(BASE_COLUMNS) \o Body(ensureKeysForColumns(<<RowA>>, BASE_COLUMNS), BASE_COLUMNS))

\* Name,Email,Company
LegacyFile ==
    File(<<"Name", COMMA, "Email", COMMA, "Company", LF,
           "a", COMMA, "e", COMMA, "c", LF>>)

\* name,EMAIL,Website,domain2,Notes
LegacyWebsiteFile ==
    File(<<"name", COMMA, "EMAIL", COMMA, "Website", COMMA, "domain2", COMMA, "Notes", LF,
           "a", COMMA, "e", COMMA, "w", COMMA, "d", COMMA, "n", LF,
           COMMA, COMMA, COMMA, "d", COMMA, LF>>)

\* The canonical header followed by Notes; the first data row is short (its
\* name only), the second has a title and a note.
RaggedFile ==
    File(<<"Full Name", COMMA, "First Name", COMMA, "Last Name", COMMA, "Title", COMMA,
           "Company", COMMA, "Person Location", COMMA, "LinkedIn URL", COMMA, "Website",
           COMMA, "Notes", LF,
           "a", LF,
           "b", COMMA, COMMA, COMMA, "t", COMMA, COMMA, COMMA, COMMA, COMMA, "n", LF>>)

InitialFiles == {NoFile, File(<<>>), BaseHeaderFile, LegacyFile, LegacyWebsiteFile, RaggedFile}

CsvInit ==
    /\ csv \in InitialFiles
    /\ bak = NoFile
    /\ origin = IF csv.exists THEN "external" ELSE "none"
    /\ csvOps = 0
    /\ lastSave = NoSave
    /\ lastUpgrade = NoUpgrade
    /\ lastOverwrite = NoOverwrite

Save ==
    /\ csvOps < MaxCsvOps
    /\ csvOps' = csvOps + 1
    /\ \E rows \in Batches, append \in AppendModes, includeBOM \in BOOLEAN, fault \in Faults :
          saveProfilesCsv(rows, append, includeBOM, fault)
    /\ lastUpgrade' = NoUpgrade
    /\ UNCHANGED <<bak, lastOverwrite, jobVars, waitVars, delayVars, lastEsc>>

Upgrade ==
    /\ csvOps < MaxCsvOps
    /\ csvOps' = csvOps + 1
    /\ \E backup \in BOOLEAN, fault \in Faults : upgradeCsvHeaders(backup, fault)
    /\ lastSave' = NoSave
    /\ UNCHANGED <<jobVars, waitVars, delayVars, lastEsc>>

-----------------------------------------------------------------------------
(* TimingEngine: utils/randomDelayer.js.  Durations are exact rationals     *)
(* [num, den]; a scale is kept in thousandths.                              *)

\* The IEEE values +Infinity and NaN: Infinity stands above every finite value
\* of the model, NaN below every value a wait can be given.
Infinity == 1000000000
NaN == -1

\* Settings of SCRAPER_SPEED_SCALE: unset or blank, or a text whose Number()
\* is the given value in thousandths, or is Infinity, or is NaN.
ScaleSettings ==
    { [set |-> FALSE, nan |-> FALSE, milli |-> 0],      \* unset, "" or "  "
      [set |-> TRUE, nan |-> FALSE, milli |-> 500],     \* "0.5"
      [set |-> TRUE, nan |-> FALSE, milli |-> 2000],    \* "2"
      [set |-> TRUE, nan |-> FALSE, milli |-> 0],       \* "0"
      [set |-> TRUE, nan |-> FALSE, milli |-> -1000],   \* "-1"
      [set |-> TRUE, nan |-> FALSE, milli |-> Infinity], \* "Infinity", "1e999"
      [set |-> TRUE, nan |-> TRUE, milli |-> 0] }       \* "fast"

\* RAW_SCALE, as Number(RAW_SCALE) in thousandths
RAW_SCALE(e) ==
    IF e.SCRAPER_SPEED_SCALE.set THEN e.SCRAPER_SPEED_SCALE
    ELSE IF e.FAST_MODE THEN [set |-> TRUE, nan |-> FALSE, milli |-> 500]
    ELSE [set |-> TRUE, nan |-> FALSE, milli |-> 1000]

\* SPEED_SCALE = Math.max(0, Number(RAW_SCALE) || 1), in thousandths
SPEED_SCALE(e) ==
    LET raw == RAW_SCALE(e)
        n == IF raw.nan \/ raw.milli = 0 THEN 1000 ELSE raw.milli
    IN IF n < 0 THEN 0 ELSE n

\* Math.random() takes the values r / RandSteps, r in 0..RandSteps-1.
RandomDraws == 0..(RandSteps - 1)

\* nextDelaySecs(min, max) * 1000, min and max given in milliseconds:
\* (Math.random() * (max - min) + min) * SPEED_SCALE
\* x * scale in IEEE arithmetic, the scale in thousandths or Infinity.
TimesScale(x, scale) ==
    IF scale # Infinity THEN x * scale
    ELSE IF x > 0 THEN Infinity
    ELSE IF x = 0 THEN NaN
    ELSE 0 - Infinity

nextDelaySecsMutantUnscaled(minMs, maxMs, r, e) ==
    [num |-> (r * (maxMs - minMs) + minMs * RandSteps) * 1000,
     den |-> RandSteps * 1000]

nextDelaySecs(minMs, maxMs, r, e) ==
    [num |-> TimesScale(r * (maxMs - minMs) + minMs * RandSteps, SPEED_SCALE(e)),
     den |-> RandSteps * 1000]

\* Math.round of the rational num / den (den > 0): the nearest integer, a half
\* going up.
Round(num, den) == (2 * num + den) \div (2 * den)

\* Math.max(0, Math.round(ms * SPEED_SCALE)), lines 63, 72 and 83
ScaledMs(ms, e) ==
    LET p == TimesScale(ms, SPEED_SCALE(e))
    IN IF p = Infinity \/ p = NaN THEN p      \* Math.round and Math.max keep them
       ELSE IF p < 0 THEN 0
       ELSE Round(p, 1000)

Labels == {"pre-contactout-extract", "other"}

\* NAMED_SEQUENCES[label]; the empty sequence when the label is not registered.
NAMED_SEQUENCES(e, label) ==
    IF label # "pre-contactout-extract" THEN <<>>
    ELSE IF e.FAST_MODE THEN <<250, 300, 350>>
    ELSE <<1000, 1200, 1400, 1500, 1600, 1700, 1800, 1900, 2000>>

\* opts of waitRandomIncreasing: factor in tenths, jitter in hundredths;
\* sequenceMs is the empty sequence when it is not given.
DefaultOpts ==
    [base |-> 500, factor |-> 12, max |-> 1000, steps |-> 1, jitter |-> 15,
     sequenceMs |-> <<>>]

OptsInputs ==
    { DefaultOpts,
      [DefaultOpts EXCEPT !.sequenceMs = <<1000, 1201>>],
      [DefaultOpts EXCEPT !.steps = 0],
      [base |-> 3, factor |-> 15, max |-> 8, steps |-> 3, jitter |-> 15,
       sequenceMs |-> <<>>],
      [base |-> 3, factor |-> 15, max |-> 8, steps |-> 2, jitter |-> 15,
       sequenceMs |-> <<7>>] }

\* Which of the three paths of waitRandomIncreasing a call takes (lines 61, 70).
SequencePathMutantExplicitFirst(namedSeq, sequenceMs) ==
    IF Len(sequenceMs) > 0 THEN "explicit"
    ELSE IF Len(namedSeq) > 0 THEN "named"
    ELSE "backoff"

SequencePath(namedSeq, sequenceMs) ==
    IF Len(namedSeq) > 0 THEN "named"
    ELSE IF Len(sequenceMs) > 0 THEN "explicit"
    ELSE "backoff"

\* Math.min(Math.max(delay + jitterAmt, base), max), Math.random() being
\* r / RandSteps: an exact rational over 100 * RandSteps (lines 81-82).
JitteredClamped(delay, opts, r) ==
    LET den == 100 * RandSteps
        x == delay * den + delay * opts.jitter * (2 * r - RandSteps)
        lo == IF x < opts.base * den THEN opts.base * den ELSE x
        hi == IF lo > opts.max * den THEN opts.max * den ELSE lo
    IN [num |-> hi, den |-> den]

\* The wait of one backoff iteration, lines 81-83.
BackoffMsMutantSingleRounding(delay, opts, r, e) ==
    LET c == JitteredClamped(delay, opts, r)
        p == TimesScale(c.num, SPEED_SCALE(e))
    IN IF p = Infinity \/ p = NaN THEN p
       ELSE IF p < 0 THEN 0
       ELSE Round(p, c.den * 1000)

BackoffMs(delay, opts, r, e) ==
    LET c == JitteredClamped(delay, opts, r)
    IN ScaledMs(Round(c.num, c.den), e)

\* delay = Math.min(Math.round(delay * factor), max), line 85
NextBackoffDelay(delay, opts) == Min(Round(delay * opts.factor, 10), opts.max)

\* Math.max(1, steps), line 80
BackoffSteps(opts) == IF opts.steps < 1 THEN 1 ELSE opts.steps

NoDelayCall == [label |-> "none", opts |-> DefaultOpts]

\* waitRandomIncreasing(page, label, opts) is called: lines 50-61, 70, 79.
DelayStart ==
    /\ dpc = "idle"
    /\ \E label \in Labels, opts \in OptsInputs :
          /\ dcall' = [label |-> label, opts |-> opts]
          /\ dpc' = SequencePath(NAMED_SEQUENCES(env, label), opts.sequenceMs)
          /\ ddelay' = opts.base
    /\ dwaits' = <<>>
    /\ dresult' = "pending"
    /\ UNCHANGED <<lastDelay, lastEsc, jobVars, csvVars, waitVars>>

\* await page.waitForTimeout(ms) settles with `outcome`; a rejection leaves
\* waitRandomIncreasing, the wait of the last iteration ends the call.
IssueWait(ms, delay, r, outcome, last) ==
    /\ dwaits' = Append(dwaits, [ms |-> ms, delay |-> delay, r |-> r, outcome |-> outcome])
    /\ dpc' = IF outcome = "rejected" \/ last THEN "idle" ELSE dpc
    /\ dresult' = IF outcome = "rejected" THEN "threw"
                  ELSE IF last THEN "returned" ELSE dresult

\* lines 62-66
WaitNamed ==
    /\ dpc = "named"
    /\ LET seq == NAMED_SEQUENCES(env, dcall.label)
           k == Len(dwaits) + 1
       IN \E o \in {"resolved", "rejected"} :
             IssueWait(ScaledMs(seq[k], env), 0, 0, o, k = Len(seq))
    /\ UNCHANGED <<dcall, ddelay, lastDelay, lastEsc, jobVars, csvVars, waitVars>>

\* lines 71-75
WaitExplicit ==
    /\ dpc = "explicit"
    /\ LET seq == dcall.opts.sequenceMs
           k == Len(dwaits) + 1
       IN \E o \in {"resolved", "rejected"} :
             IssueWait(ScaledMs(seq[k], env), 0, 0, o, k = Len(seq))
    /\ UNCHANGED <<dcall, ddelay, lastDelay, lastEsc, jobVars, csvVars, waitVars>>

\* lines 80-86
WaitBackoff ==
    /\ dpc = "backoff"
    /\ \E o \in {"resolved", "rejected"}, r \in RandomDraws :
          /\ IssueWait(BackoffMs(ddelay, dcall.opts, r, env), ddelay, r, o,
                       Len(dwaits) + 1 = BackoffSteps(dcall.opts))
          /\ ddelay' = IF o = "resolved" THEN NextBackoffDelay(ddelay, dcall.opts)
                       ELSE ddelay
    /\ UNCHANGED <<dcall, lastDelay, lastEsc, jobVars, csvVars, waitVars>>

\* Arguments of nextDelaySecs, in milliseconds: the default (0.5, 1) and the
\* two settle windows of waitForLeadList.
DelayRanges ==
    { [min |-> 500, max |-> 1000], [min |-> 2000, max |-> 5000],
      [min |-> 200, max |-> 600] }

NoDelay == [called |-> FALSE, min |-> 0, max |-> 0, r |-> 0, value |-> [num |-> 0, den |-> 1]]

\* nextDelaySecs(min, max) is called.
NextDelay ==
    /\ \E range \in DelayRanges, r \in RandomDraws :
          lastDelay' = [called |-> TRUE, min |-> range.min, max |-> range.max, r |-> r,
                        value |-> nextDelaySecs(range.min, range.max, r, env)]
    /\ UNCHANGED <<dpc, dcall, dwaits, ddelay, dresult, lastEsc, jobVars, csvVars, waitVars>>

DelayIdle ==
    /\ dpc = "idle"
    /\ dcall = NoDelayCall
    /\ dwaits = <<>>
    /\ ddelay = 0
    /\ dresult = "none"
    /\ lastDelay = NoDelay

\* randomDelayer.js reads FAST_MODE and SCRAPER_SPEED_SCALE when it is loaded.
DelayInit ==
    /\ env \in [FAST_MODE : BOOLEAN, SCRAPER_SPEED_SCALE : ScaleSettings,
                FAST_MIN_ROWS : {"unset"}]
    /\ wpc = "idle"
    /\ wlog = <<>>
    /\ wresult = [state |-> "none", timeout |-> 0]
    /\ wcalls = 0
    /\ DelayIdle

-----------------------------------------------------------------------------
(* esc applied to a value *)

\* The characters of the values handed to esc.
EscAlphabet == {QUOTE, COMMA, SP, CR, LF, NUL, "a"}

\* null, and every string of at most MaxEscLen characters.
EscValues == {Null} \cup UNION {[1..n -> EscAlphabet] : n \in 0..MaxEscLen}

NoEsc == [called |-> FALSE, value |-> Null, field |-> <<>>]

EscIdle == lastEsc = NoEsc

Escape ==
    /\ \E value \in EscValues :
          lastEsc' = [called |-> TRUE, value |-> value, field |-> esc(value)]
    /\ UNCHANGED <<jobVars, csvVars, waitVars, delayVars>>

-----------------------------------------------------------------------------
(* ListReadinessWaiter: utils/waitForLeadList.js *)

\* FAST_MIN_ROWS settings: unset, "3", "0", "many"
MinRowsSettings == {"unset", "3", "0", "many"}

\* minRows, lines 34-36
minRows(e) ==
    IF e.FAST_MODE
    THEN LET n == CASE e.FAST_MIN_ROWS = "3" -> 3
                    [] OTHER -> 5     \* Number('5'), Number('0') || 5, NaN || 5
         IN IF n < 1 THEN 1 ELSE n
    ELSE 10

\* Where control goes after the awaited page primitive of `step` has settled
\* with `outcome` ("resolved" or "rejected"): the next step, "throw" (the
\* rejection leaves waitForLeadList) or "return".
AfterStepMutantVisibleSwallowed(step, outcome) ==
    CASE step = "visible" -> "attached"
      [] step = "attached" -> IF outcome = "rejected" THEN "throw" ELSE "count"
      [] step = "count" -> IF outcome = "rejected" THEN "throw" ELSE "load"
      [] step = "load" -> "settle"
      [] OTHER -> "return"

AfterStepMutantCountSwallowed(step, outcome) ==
    CASE step = "visible" -> IF outcome = "rejected" THEN "throw" ELSE "attached"
      [] step = "attached" -> IF outcome = "rejected" THEN "throw" ELSE "count"
      [] step = "count" -> "load"
      [] step = "load" -> "settle"
      [] OTHER -> "return"

AfterStepMutantSkipLoad(step, outcome) ==
    CASE step = "visible" -> IF outcome = "rejected" THEN "throw" ELSE "attached"
      [] step = "attached" -> IF outcome = "rejected" THEN "throw" ELSE "count"
      [] step = "count" -> IF outcome = "rejected" THEN "throw" ELSE "settle"
      [] step = "load" -> "settle"
      [] OTHER -> "return"

AfterStepMutantLoadFatal(step, outcome) ==
    CASE step = "visible" -> IF outcome = "rejected" THEN "throw" ELSE "attached"
      [] step = "attached" -> IF outcome = "rejected" THEN "throw" ELSE "count"
      [] step = "count" -> IF outcome = "rejected" THEN "throw" ELSE "load"
      [] step = "load" -> IF outcome = "rejected" THEN "throw" ELSE "settle"
      [] OTHER -> "return"

AfterStep(step, outcome) ==
    CASE step = "visible" -> IF outcome = "rejected" THEN "throw" ELSE "attached"
      [] step = "attached" -> IF outcome = "rejected" THEN "throw" ELSE "count"
      [] step = "count" -> IF outcome = "rejected" THEN "throw" ELSE "load"
      [] step = "load" -> "settle"      \* .catch(() => {})
      [] OTHER -> "return"              \* try { ... } catch {}

Outcomes == {"resolved", "rejected"}

\* The page primitive of `step` is invoked with `args` and settles with `outcome`.
Await(step, prim, args, outcome) ==
    /\ wpc = step
    /\ wlog' = Append(wlog, [step |-> step, prim |-> prim, args |-> args,
                             outcome |-> outcome])
    /\ LET to == AfterStep(step, outcome)
       IN /\ wpc' = IF to \in {"throw", "return"} THEN "idle" ELSE to
          /\ wresult' = [wresult EXCEPT !.state =
                            CASE to = "throw" -> "threw"
                              [] to = "return" -> "returned"
                              [] OTHER -> "pending"]
    /\ UNCHANGED <<env, wcalls>>

Timeouts == {10000, 3000}

\* waitForLeadList(page, timeout) is called.
WaitStart ==
    /\ wpc = "idle"
    /\ wcalls < MaxWaitCalls
    /\ \E timeout \in Timeouts :
          wresult' = [state |-> "pending", timeout |-> timeout]
    /\ wpc' = "visible"
    /\ wlog' = <<>>
    /\ wcalls' = wcalls + 1
    /\ UNCHANGED <<env, jobVars, csvVars, delayVars, lastEsc>>

\* line 26
WaitVisible ==
    /\ \E o \in Outcomes :
          Await("visible", "waitForSelector",
                [state |-> "visible", timeout |-> wresult.timeout], o)
    /\ UNCHANGED <<jobVars, csvVars, delayVars, lastEsc>>

\* line 31
WaitAttached ==
    /\ \E o \in Outcomes :
          Await("attached", "waitForSelector",
                [state |-> "attached", timeout |-> wresult.timeout], o)
    /\ UNCHANGED <<jobVars, csvVars, delayVars, lastEsc>>

\* lines 34-42
WaitCount ==
    /\ \E o \in Outcomes :
          Await("count", "waitForFunction",
                [n |-> minRows(env), timeout |-> wresult.timeout], o)
    /\ UNCHANGED <<jobVars, csvVars, delayVars, lastEsc>>

\* line 46
WaitLoadState ==
    /\ \E o \in Outcomes :
          Await("load", "waitForLoadState",
                [state |-> "domcontentloaded", timeout |-> 500], o)
    /\ UNCHANGED <<jobVars, csvVars, delayVars, lastEsc>>

\* lines 49-52
WaitSettle ==
    /\ \E o \in Outcomes, r \in RandomDraws :
          Await("settle", "waitForTimeout",
                [ms |-> IF env.FAST_MODE THEN nextDelaySecs(200, 600, r, env)
                        ELSE nextDelaySecs(2000, 5000, r, env)], o)
    /\ UNCHANGED <<jobVars, csvVars, delayVars, lastEsc>>

WaitInit ==
    /\ env \in [FAST_MODE : BOOLEAN, SCRAPER_SPEED_SCALE : ScaleSettings,
                FAST_MIN_ROWS : MinRowsSettings]
    /\ wpc = "idle"
    /\ wlog = <<>>
    /\ wresult = [state |-> "none", timeout |-> 0]
    /\ wcalls = 0

-----------------------------------------------------------------------------
(* Specifications *)

\* The components are checked one at a time, the other two at rest.
JobsIdle == JobsInit

CsvIdle ==
    /\ csv = NoFile
    /\ bak = NoFile
    /\ origin = "none"
    /\ csvOps = 0
    /\ lastSave = NoSave
    /\ lastUpgrade = NoUpgrade
    /\ lastOverwrite = NoOverwrite

WaitIdle ==
    /\ env = [FAST_MODE |-> FALSE,
              SCRAPER_SPEED_SCALE |-> [set |-> FALSE, nan |-> FALSE, milli |-> 0],
              FAST_MIN_ROWS |-> "unset"]
    /\ wpc = "idle"
    /\ wlog = <<>>
    /\ wresult = [state |-> "none", timeout |-> 0]
    /\ wcalls = 0

JobsNext == Create \/ Transition \/ JobTick

JobsBegin == JobsInit /\ CsvIdle /\ WaitIdle /\ DelayIdle /\ EscIdle

SpecJobs == JobsBegin /\ [][JobsNext]_vars

CsvNext == Save \/ Upgrade

CsvBegin == CsvInit /\ JobsIdle /\ WaitIdle /\ DelayIdle /\ EscIdle

SpecCsv == CsvBegin /\ [][CsvNext]_vars

WaitNext ==
    \/ WaitStart
    \/ WaitVisible
    \/ WaitAttached
    \/ WaitCount
    \/ WaitLoadState
    \/ WaitSettle

WaitBegin == WaitInit /\ JobsIdle /\ CsvIdle /\ DelayIdle /\ EscIdle

SpecWait == WaitBegin /\ [][WaitNext]_vars

DelayNext ==
    \/ DelayStart
    \/ WaitNamed
    \/ WaitExplicit
    \/ WaitBackoff
    \/ NextDelay

DelayBegin == DelayInit /\ JobsIdle /\ CsvIdle /\ EscIdle

SpecDelay == DelayBegin /\ [][DelayNext]_vars

EscNext == Escape

EscBegin == EscIdle /\ JobsIdle /\ CsvIdle /\ WaitIdle /\ DelayIdle

SpecEsc == EscBegin /\ [][EscNext]_vars

StartupNext ==
    \/ StartServer
    \/ EnsureDir
    \/ LoadScan
    \/ LoadParse
    \/ CleanupScan
    \/ CleanupStep

StartupBegin == StartupInit /\ CsvIdle /\ WaitIdle /\ DelayIdle /\ EscIdle

SpecStartup == StartupBegin /\ [][StartupNext]_vars

Init == JobsInit /\ CsvInit /\ WaitInit /\ DelayIdle /\ EscIdle

Next == JobsNext \/ StartupNext \/ CsvNext \/ WaitNext \/ DelayNext \/ EscNext

Spec == Init /\ [][Next]_vars

-----------------------------------------------------------------------------
(* Claims *)

\* C1: transition succeeds exactly for queued->running, running->completed,
\* running->failed, queued->cancelled and running->cancelled; every other
\* request fails with InvalidTransition and leaves the job's status, updatedAt
\* and persisted record as they were before the call.
C1_TransitionTable ==
    lastJobCall.op = "transition" =>
        LET c == lastJobCall
            legal == \/ (c.from = "queued" /\ c.to \in {"running", "cancelled"})
                     \/ (c.from = "running" /\ c.to \in {"completed", "failed", "cancelled"})
        IN /\ c.result = "ok" <=> legal
           /\ c.result = "ok" =>
                /\ jobs[c.id].status = c.to
                /\ disk[c.id] = jobs[c.id]
           /\ c.result # "ok" =>
                /\ c.result = "InvalidTransition"
                /\ jobs[c.id] = c.jobBefore
                /\ disk[c.id] = c.diskBefore

\* C1 witness: a queued job was asked to go to completed and was refused, and
\* another job has gone queued -> running -> completed.
C1_Witness ==
    /\ lastJobCall.op = "transition"
    /\ lastJobCall.from = "queued" /\ lastJobCall.to = "completed"
    /\ lastJobCall.result = "InvalidTransition"
    /\ jobs[lastJobCall.id].status = "queued"
    /\ \E id \in JobIds : jobs[id].status = "completed"

-----------------------------------------------------------------------------
(* Reading the destination for the claims *)

CsvRecords == Records(csv.content)

\* The names that occur as column labels: the canonical ones and the legacy ones.
ColumnLabels ==
    { <<"Full Name">>, <<"First Name">>, <<"Last Name">>, <<"Title">>, <<"Company">>,
      <<"Person Location">>, <<"LinkedIn URL">>, <<"Website">>, <<"Name">>, <<"Email">>,
      <<"name">>, <<"EMAIL">>, <<"domain2">>, <<"Notes">> }

IsHeaderRow(rec) == rec # <<>> /\ \A i \in 1..Len(rec) : rec[i] \in ColumnLabels

\* The eight canonical column names, as the specification lists them.
CanonicalNames ==
    << <<"Full Name">>, <<"First Name">>, <<"Last Name">>, <<"Title">>, <<"Company">>,
       <<"Person Location">>, <<"LinkedIn URL">>, <<"Website">> >>

\* What the last successful saveProfilesCsv call put into the file.
SaveAppended == lastSave.fileExists /\ lastSave.append # "false"

SaveWritten ==
    IF SaveAppended
    THEN SubSeq(csv.content, Len(lastSave.before.content) + 1, Len(csv.content))
    ELSE csv.content

WebsiteCount(rec) == Cardinality({i \in 1..Len(rec) : toLowerCase(rec[i]) = <<"website">>})

\* C2: after any sequence of save() calls, whatever header the file started
\* with, every row a save() call has put into the file has as many columns as
\* the file's header row.
C2_RowWidthEqualsHeader ==
    (lastSave.result = "ok" /\ CsvRecords # <<>>) =>
        LET written == Records(SaveWritten)
        IN \A n \in 1..Len(written) : Len(written[n]) = Len(CsvRecords[1])

\* C3 as claimed: whenever upgradeCsvHeaders has overwritten the original, the
\* backup file exists and holds the bytes the original had before the call.
C3_BackupAlwaysWritten ==
    lastOverwrite.done => bak.exists /\ bak.content = lastOverwrite.raw

\* C3 as amended: with the backup option on, an upgradeCsvHeaders call that has
\* changed the original leaves a backup holding the bytes the original had
\* before the call, and a call whose backup write failed leaves the original
\* as it was.
C3_BackupBeforeOverwrite ==
    /\ (lastOverwrite.done /\ lastOverwrite.backup) =>
           bak.exists /\ bak.content = lastOverwrite.raw
    /\ (lastUpgrade.result = "error" /\ lastUpgrade.backup /\ lastUpgrade.fault.at = 1) =>
           /\ csv = lastUpgrade.before
           /\ ~lastOverwrite.done

\* C3 witness: a migration with backup has replaced the original.
C3_Witness ==
    /\ lastUpgrade.result = "changed" /\ lastUpgrade.backup
    /\ lastOverwrite.done
    /\ csv.content # lastOverwrite.raw
    /\ bak.exists

\* C6 as claimed: a save() call that finds the destination existing writes no
\* byte-order mark, whatever the append mode.
C6_NoBomWhenFileExists ==
    (lastSave.result = "ok" /\ lastSave.fileExists) =>
        \A i \in 1..Len(SaveWritten) : SaveWritten[i] # BOM

\* C6 as amended: save() writes a byte-order mark only in a call that writes the
\* whole file (the destination did not exist, or append is false); a call that
\* appends to an existing destination writes none; a file holds at most one
\* byte-order mark, at offset 0.
C6_BomOnlyWithHeader ==
    /\ lastSave.result = "ok" =>
          /\ (\E i \in 1..Len(SaveWritten) : SaveWritten[i] = BOM) =>
                 /\ ~lastSave.fileExists \/ lastSave.append = "false"
                 /\ lastSave.includeBOM
          /\ SaveAppended => \A i \in 1..Len(SaveWritten) : SaveWritten[i] # BOM
    /\ \A i \in 1..Len(csv.content) : csv.content[i] = BOM => i = 1

\* C6 witness: a call with includeBOM appended to an existing file that starts
\* with a byte-order mark.
C6_Witness ==
    /\ lastSave.result = "ok" /\ SaveAppended /\ lastSave.includeBOM
    /\ csv.content[1] = BOM
    /\ Len(SaveWritten) > 0

\* Whether the first record of a file names a website/domain column.
HasWebsiteMarker(file) ==
    LET recs == Records(file.content)
    IN /\ recs # <<>>
       /\ \E i \in 1..Len(recs[1]) :
             \E m \in {"website", "domain", "domain1", "domain2", "domain3"} :
                toLowerCase(recs[1][i]) = <<m>>

\* C7: a save() call uses the base columns plus one Website column, last, when
\* the destination does not exist or its first line has a website/domain
\* marker, and the base columns otherwise; the rows it writes have that many
\* fields; the file's header never has more than one Website column.
C7_ColumnSetFollowsHeader ==
    /\ lastSave.result = "ok" =>
          LET ext == ~lastSave.fileExists \/ HasWebsiteMarker(lastSave.before)
              names == [i \in 1..Len(lastSave.columns) |-> lastSave.columns[i].header]
              written == Records(SaveWritten)
          IN /\ names = IF ext THEN CanonicalNames ELSE SubSeq(CanonicalNames, 1, 7)
             /\ \A n \in 1..Len(written) : Len(written[n]) = IF ext THEN 8 ELSE 7
    /\ (csv.exists /\ CsvRecords # <<>>) => WebsiteCount(CsvRecords[1]) <= 1

\* C7 witness: rows were appended to a file whose header has a Website column,
\* and the header still has exactly one.
C7_Witness ==
    /\ lastSave.result = "ok" /\ SaveAppended
    /\ HasWebsiteMarker(lastSave.before)
    /\ WebsiteCount(CsvRecords[1]) = 1

\* C8: the file holds at most one header row, and a header row is its first line.
C8_OneHeaderRowFirst ==
    csv.exists => \A n \in 2..Len(CsvRecords) : ~IsHeaderRow(CsvRecords[n])

\* C8 witness: a second batch was appended, with append true, to a file that
\* starts with its header row.
C8_Witness ==
    /\ lastSave.result = "ok" /\ SaveAppended /\ lastSave.append = "true"
    /\ Len(CsvRecords) >= 3
    /\ IsHeaderRow(CsvRecords[1])
    /\ origin = "save"

C10_CanonicalHeaderNoEmail ==
    lastUpgrade.result = "changed" =>
        LET recs == CsvRecords
            old == Records(lastUpgrade.before.content)
        IN /\ Len(recs) = Len(old)
           /\ Len(recs[1]) >= 8
           /\ SubSeq(recs[1], 1, 8) = CanonicalNames
           /\ lastUpgrade.columns = recs[1]
           /\ \A i \in 1..Len(recs[1]) : toLowerCase(recs[1][i]) # <<"email">>
           /\ \A n \in 2..Len(recs) :
                 /\ Len(recs[n]) = Len(recs[1])
                 /\ \A i \in 1..Len(recs[n]) : recs[n][i] # <<"e">>
           /\ old[1] = << <<"Name">>, <<"Email">>, <<"Company">> >> =>
                 /\ recs[1] = CanonicalNames
                 /\ \A n \in 2..Len(recs) : recs[n][1] = old[n][1]

\* C10 witness: the file with header Name, Email, Company has been migrated.
C10_Witness ==
    /\ lastUpgrade.result = "changed"
    /\ lastUpgrade.headers = << <<"Name">>, <<"Email">>, <<"Company">> >>
    /\ Len(CsvRecords) = 2
    /\ CsvRecords[2][1] = <<"a">>

\* C4 as claimed: a rejected count wait (step 3) does not make the call fail.
C4_CountTimeoutNotFatal ==
    (\E i \in 1..Len(wlog) : wlog[i].step = "count" /\ wlog[i].outcome = "rejected") =>
        wresult.state # "threw"

\* C4 as amended: a rejected count wait is fatal: the call throws and neither
\* the content-loaded wait nor the settle delay is invoked.
C4_CountTimeoutFatal ==
    \A i \in 1..Len(wlog) :
        (wlog[i].step = "count" /\ wlog[i].outcome = "rejected") =>
            /\ wresult.state = "threw"
            /\ wpc = "idle"
            /\ i = Len(wlog)

\* C4 witness: the visible and attached waits resolved and the count wait timed out.
C4_Witness ==
    /\ Len(wlog) = 3
    /\ wlog[1].outcome = "resolved" /\ wlog[2].outcome = "resolved"
    /\ wlog[3].step = "count" /\ wlog[3].outcome = "rejected"
    /\ wresult.state = "threw"

\* C5: a rejected visibility wait (step 1) is fatal: the call throws and no
\* later step is invoked.
C5_VisibleTimeoutFatal ==
    (wlog # <<>> /\ wlog[1].outcome = "rejected") =>
        /\ wlog[1].step = "visible"
        /\ wresult.state = "threw"
        /\ wpc = "idle"
        /\ Len(wlog) = 1

\* C5 witness: the visibility wait of a call timed out.
C5_Witness ==
    /\ Len(wlog) = 1
    /\ wlog[1].step = "visible" /\ wlog[1].args.state = "visible"
    /\ wlog[1].outcome = "rejected"
    /\ wresult.state = "threw"

-----------------------------------------------------------------------------
(* SchemaMigrator claims: the file before the call, read independently *)

\* The records of the file the last upgradeCsvHeaders call found.
OldRecords == Records(lastUpgrade.before.content)

\* The first column of header whose name equals name ignoring case, 0 if none.
ColumnOf(header, name) ==
    LET hits == {i \in 1..Len(header) : toLowerCase(header[i]) = toLowerCase(name)}
    IN IF hits = {} THEN 0 ELSE CHOOSE i \in hits : \A j \in hits : i <= j

\* The column, in record rec under header, that the canonical column c takes
\* its value from: that of the first alias whose value is non-empty; 0 if none.
RECURSIVE SourceColumn(_, _, _)
SourceColumn(header, rec, aliases) ==
    IF aliases = <<>> THEN 0
    ELSE LET i == ColumnOf(header, aliases[1])
         IN IF i # 0 /\ i <= Len(rec) /\ rec[i] # <<>> THEN i
            ELSE SourceColumn(header, rec, Tail(aliases))

\* C11: a file with no Email column whose header starts with the canonical
\* names is reported unchanged by upgradeCsvHeaders, and neither the file nor
\* the backup is written.
C11_CanonicalFileUntouched ==
    (/\ lastUpgrade.result # "none"
     /\ lastUpgrade.before.exists
     /\ OldRecords # <<>>
     /\ Len(OldRecords[1]) >= 8
     /\ \A i \in 1..Len(OldRecords[1]) : toLowerCase(OldRecords[1][i]) # <<"email">>
     /\ \A i \in 1..8 : toLowerCase(OldRecords[1][i]) = toLowerCase(CanonicalNames[i]))
    => /\ lastUpgrade.result \in {"already-canonical", "empty"}
       /\ csv = lastUpgrade.before
       /\ bak = lastUpgrade.bakBefore

\* C12: after a changed migration, every original column that is not Email and
\* that no canonical column takes a value from (in any row) is in the output
\* header after the eight canonical columns, in the original order, and each
\* row has its original value under it.
C12_ExtrasCarriedThrough ==
    lastUpgrade.result = "changed" =>
        LET old == OldRecords
            recs == CsvRecords
            consumed == {SourceColumn(old[1], old[n], CANONICAL_HEADERS[c].aliases) :
                            n \in 2..Len(old), c \in 1..Len(CANONICAL_HEADERS)}
            extra == {i \in 1..Len(old[1]) :
                         toLowerCase(old[1][i]) # <<"email">> /\ i \notin consumed}
            at(i) == 8 + Cardinality({j \in extra : j <= i})
        IN \A i \in extra :
              /\ Len(recs[1]) >= at(i)
              /\ recs[1][at(i)] = old[1][i]
              /\ \A n \in 2..Len(old) :
                    recs[n][at(i)] = IF i <= Len(old[n]) THEN old[n][i] ELSE <<>>

\* C13: after a changed migration, each row has under each canonical column
\* the value of the first alias, matched against the original header ignoring
\* case, whose value is non-empty in that row, and the empty string when every
\* alias is absent or empty.
C13_FirstNonEmptyAlias ==
    lastUpgrade.result = "changed" =>
        LET old == OldRecords
            recs == CsvRecords
        IN \A n \in 2..Len(old) : \A c \in 1..Len(CANONICAL_HEADERS) :
              LET i == SourceColumn(old[1], old[n], CANONICAL_HEADERS[c].aliases)
              IN recs[n][c] = IF i = 0 THEN <<>> ELSE old[n][i]

-----------------------------------------------------------------------------
(* ListReadinessWaiter claims *)

\* The page primitives of one waitForLeadList call, in the order of the code.
StepOrder ==
    << [step |-> "visible", prim |-> "waitForSelector"],
       [step |-> "attached", prim |-> "waitForSelector"],
       [step |-> "count", prim |-> "waitForFunction"],
       [step |-> "load", prim |-> "waitForLoadState"],
       [step |-> "settle", prim |-> "waitForTimeout"] >>

\* C14: a waitForLeadList call invokes the visible wait, the attached wait,
\* the count wait, the load-state wait and the settle wait in that order, each
\* at most once, and a call that returns has made all five, the settle wait last.
C14_FixedOrderNoRetry ==
    /\ Len(wlog) <= Len(StepOrder)
    /\ \A i \in 1..Len(wlog) :
          /\ wlog[i].step = StepOrder[i].step
          /\ wlog[i].prim = StepOrder[i].prim
    /\ wresult.state = "returned" =>
          /\ Len(wlog) = Len(StepOrder)
          /\ wlog[Len(wlog)].step = "settle"
    /\ wpc # "idle" => Len(wlog) < Len(StepOrder) /\ wpc = StepOrder[Len(wlog) + 1].step

\* C14 witness: a call has returned after its five waits, all of them resolved.
C14_Witness ==
    /\ wresult.state = "returned"
    /\ Len(wlog) = 5
    /\ \A i \in 1..5 : wlog[i].outcome = "resolved"
    /\ wlog[3].args.n = 10

\* C15: a rejected load-state wait (step 4) never makes the call fail: the
\* settle wait is the next thing invoked and the call then returns.
C15_LoadTimeoutSwallowed ==
    \A i \in 1..Len(wlog) :
        (wlog[i].step = "load" /\ wlog[i].outcome = "rejected") =>
            /\ wresult.state # "threw"
            /\ \/ (i = Len(wlog) /\ wpc = "settle" /\ wresult.state = "pending")
               \/ (i + 1 = Len(wlog) /\ wlog[i + 1].step = "settle"
                    /\ wresult.state = "returned")

\* C15 witness: the load-state wait timed out, the settle wait was made, and
\* the call returned.
C15_Witness ==
    /\ Len(wlog) = 5
    /\ wlog[4].step = "load" /\ wlog[4].outcome = "rejected"
    /\ wlog[4].args.timeout = 500
    /\ wlog[5].step = "settle" /\ wlog[5].outcome = "resolved"
    /\ wresult.state = "returned"

-----------------------------------------------------------------------------
(* TimingEngine claims *)

\* The literal sequence registered for the label pre-contactout-extract.
RegisteredSequence ==
    IF env.FAST_MODE THEN <<250, 300, 350>>
    ELSE <<1000, 1200, 1400, 1500, 1600, 1700, 1800, 1900, 2000>>

\* The effective scale in thousandths: 1 when the setting is unset (0.5 in
\* fast mode), not a number or zero; 0 when it is negative; Infinity when the
\* setting reads as Infinity.
EffectiveScale ==
    LET setting == env.SCRAPER_SPEED_SCALE
    IN IF ~setting.set THEN (IF env.FAST_MODE THEN 500 ELSE 1000)
       ELSE IF setting.nan \/ setting.milli = 0 THEN 1000
       ELSE IF setting.milli < 0 THEN 0
       ELSE setting.milli

\* x * scale rounded to whole milliseconds (a half going up), x = num / den.
RoundScaled(num, den) ==
    IF EffectiveScale = Infinity
    THEN (IF num > 0 THEN Infinity ELSE IF num = 0 THEN NaN ELSE 0)
    ELSE (2 * num * EffectiveScale + den * 1000) \div (2 * den * 1000)

\* C16: a call whose label names a registered sequence issues one wait per
\* registered duration, in the registered order, each the duration times the
\* scale rounded to whole milliseconds, and no other wait, whatever base,
\* steps, factor and sequenceMs the caller passed; a call that returns has
\* issued them all.
C16_NamedSequenceWaits ==
    (dresult # "none" /\ dcall.label = "pre-contactout-extract") =>
        /\ Len(dwaits) <= Len(RegisteredSequence)
        /\ \A k \in 1..Len(dwaits) : dwaits[k].ms = RoundScaled(RegisteredSequence[k], 1)
        /\ dresult = "returned" => Len(dwaits) = Len(RegisteredSequence)
        /\ dresult = "pending" => Len(dwaits) < Len(RegisteredSequence)

\* C16 witness: a call with a registered label and an explicit sequenceMs has
\* returned after the nine registered waits, halved by the scale 0.5.
C16_Witness ==
    /\ dresult = "returned"
    /\ dcall.label = "pre-contactout-extract"
    /\ dcall.opts.sequenceMs # <<>>
    /\ EffectiveScale = 500
    /\ Len(dwaits) = 9
    /\ dwaits[1].ms = 500 /\ dwaits[9].ms = 1000

\* Whether the current call took the backoff path: no registered sequence for
\* its label and no explicit sequence.
OnBackoffPath ==
    /\ dresult # "none"
    /\ dcall.label # "pre-contactout-extract"
    /\ dcall.opts.sequenceMs = <<>>

\* The delay of iteration k of the reference generator: base, then times
\* factor capped at max, as an exact rational.
RECURSIVE ReferenceDelay(_)
ReferenceDelay(k) ==
    IF k = 1 THEN [num |-> dcall.opts.base, den |-> 1]
    ELSE LET d == ReferenceDelay(k - 1)
             n == d.num * dcall.opts.factor
             m == d.den * 10
         IN IF n > dcall.opts.max * m THEN [num |-> dcall.opts.max, den |-> 1]
            ELSE [num |-> n, den |-> m]

\* clamp(delay +/- jitter * delay, base, max) for the delay d = num / den and
\* the draw of iteration k, as an exact rational.
JitterClamp(d, k) ==
    LET den == d.den * 100 * RandSteps
        x == d.num * (100 * RandSteps + dcall.opts.jitter * (2 * dwaits[k].r - RandSteps))
        lo == IF x < dcall.opts.base * den THEN dcall.opts.base * den ELSE x
        hi == IF lo > dcall.opts.max * den THEN dcall.opts.max * den ELSE lo
    IN [num |-> hi, den |-> den]

\* C17 as claimed: on the backoff path the waits are those of the reference
\* generator: `steps` waits, each the single rounding of the clamped jittered
\* delay times the scale, the delay growing by factor up to max.
C17_BackoffSingleRounding ==
    OnBackoffPath =>
        /\ \A k \in 1..Len(dwaits) :
              LET c == JitterClamp(ReferenceDelay(k), k)
              IN dwaits[k].ms = RoundScaled(c.num, c.den)
        /\ dresult = "returned" => Len(dwaits) = dcall.opts.steps

\* The delay of iteration k as the code keeps it: base, then the product with
\* factor rounded to a whole number and capped at max.
RECURSIVE CodedDelay(_)
CodedDelay(k) ==
    IF k = 1 THEN dcall.opts.base
    ELSE LET n == (2 * CodedDelay(k - 1) * dcall.opts.factor + 10) \div 20
         IN IF n > dcall.opts.max THEN dcall.opts.max ELSE n

\* C17 as amended: on the backoff path max(1, steps) waits are issued; each is
\* the clamped jittered delay rounded to a whole number, then multiplied by
\* the scale and rounded again (and never negative); the delay of the next
\* iteration is delay * factor rounded to a whole number and capped at max.
C17_BackoffAsCoded ==
    OnBackoffPath =>
        /\ \A k \in 1..Len(dwaits) :
              LET c == JitterClamp([num |-> CodedDelay(k), den |-> 1], k)
                  whole == (2 * c.num + c.den) \div (2 * c.den)
                  ms == RoundScaled(whole, 1)
              IN dwaits[k].ms = IF ms < 0 /\ ms # NaN THEN 0 ELSE ms
        /\ Len(dwaits) <= (IF dcall.opts.steps < 1 THEN 1 ELSE dcall.opts.steps)
        /\ dresult = "returned" =>
              Len(dwaits) = IF dcall.opts.steps < 1 THEN 1 ELSE dcall.opts.steps

\* C17 witness: a backoff call of three steps (base 3, factor 1.5, max 8) has
\* returned under the scale 2; its second wait, drawn at the low end of the
\* jitter from the delay 5, is 8 ms.
C17_Witness ==
    /\ OnBackoffPath
    /\ dresult = "returned"
    /\ dcall.opts.steps = 3 /\ dcall.opts.base = 3
    /\ EffectiveScale = 2000
    /\ Len(dwaits) = 3
    /\ dwaits[2].r = 0 /\ dwaits[2].ms = 8

-----------------------------------------------------------------------------
(* esc claims *)

\* The one field a CSV parser reads from the text esc returned; Null when the
\* text is not one record of one field.
ParsedField ==
    LET recs == Records(lastEsc.field)
    IN IF Len(recs) = 1 /\ Len(recs[1]) = 1 THEN recs[1][1] ELSE Null

HasQuote(s) == \E i \in 1..Len(s) : s[i] = QUOTE

\* C19 as claimed: for a string holding a double quote, parsing esc(s) gives s
\* back with its line breaks collapsed to a space.
C19_RoundTripModuloLineBreaks ==
    (lastEsc.called /\ lastEsc.value # Null /\ HasQuote(lastEsc.value)) =>
        ParsedField = CollapseLineBreaks(lastEsc.value)

\* C19 as amended: for a string holding a double quote, parsing esc(s) gives s
\* with its NUL characters removed, each LF or CR LF replaced by a space, and
\* the surrounding whitespace trimmed.
C19_RoundTripNormalized ==
    (lastEsc.called /\ lastEsc.value # Null /\ HasQuote(lastEsc.value)) =>
        ParsedField = trim(CollapseLineBreaks(StripNul(lastEsc.value)))

\* C19 witness: esc was applied to a quote, a line break and a letter, and the
\* field parses to the quote, a space and the letter.
C19_Witness ==
    /\ lastEsc.called
    /\ lastEsc.value = <<QUOTE, LF, "a">>
    /\ lastEsc.field = <<QUOTE, QUOTE, QUOTE, SP, "a", QUOTE>>
    /\ ParsedField = <<QUOTE, SP, "a">>

\* Every double quote of s is one of a pair.
RECURSIVE QuotesDoubled(_)
QuotesDoubled(s) ==
    IF s = <<>> THEN TRUE
    ELSE IF s[1] = QUOTE
         THEN Len(s) >= 2 /\ s[2] = QUOTE /\ QuotesDoubled(SubSeq(s, 3, Len(s)))
    ELSE QuotesDoubled(Tail(s))

\* C20: esc(v) is wrapped in double quotes; for null it is the two quotes; for
\* a string the content between the quotes holds no NUL, no CR and no LF,
\* neither starts nor ends with whitespace, and has every quote doubled.
C20_EscFieldShape ==
    lastEsc.called =>
        LET f == lastEsc.field
            inner == SubSeq(f, 2, Len(f) - 1)
        IN /\ Len(f) >= 2 /\ f[1] = QUOTE /\ f[Len(f)] = QUOTE
           /\ lastEsc.value = Null => f = <<QUOTE, QUOTE>>
           /\ lastEsc.value # Null =>
                 /\ \A i \in 1..Len(inner) : inner[i] \notin {NUL, CR, LF}
                 /\ inner # <<>> => inner[1] # SP /\ inner[Len(inner)] # SP
                 /\ QuotesDoubled(inner)

-----------------------------------------------------------------------------
(* SchemaMigrator claims: data kept by a migration *)

\* C23: a changed migration keeps every data row, in order, and every
\* non-empty value an original row holds under a column other than Email is
\* somewhere in the corresponding migrated row.
C23_NoDataLoss ==
    lastUpgrade.result = "changed" =>
        LET old == OldRecords
            recs == CsvRecords
        IN /\ Len(recs) = Len(old)
           /\ \A n \in 2..Len(old) :
                 \A i \in 1..Min(Len(old[n]), Len(old[1])) :
                    (toLowerCase(old[1][i]) # <<"email">> /\ old[n][i] # <<>>) =>
                        \E j \in 1..Len(recs[n]) : recs[n][j] = old[n][i]

-----------------------------------------------------------------------------
(* CsvExporter claims: appending *)

\* The records a batch must appear as: one record per profile, one field per
\* column, each the profile's value for the column's key with NUL removed,
\* line breaks collapsed and whitespace trimmed, empty when the key is absent
\* or null.
ExpectedRows(rows, columns) ==
    [n \in 1..Len(rows) |->
        [c \in 1..Len(columns) |->
            LET key == columns[c].key
            IN IF key \in DOMAIN rows[n] /\ rows[n][key] # Null
               THEN trim(CollapseLineBreaks(StripNul(rows[n][key])))
               ELSE <<>>]]

C25_SecondMigrationUnchanged ==
    lastUpgrade.previous.result = "changed" =>
        /\ lastUpgrade.result = "already-canonical"
        /\ csv = lastUpgrade.before
        /\ bak = lastUpgrade.bakBefore
        /\ lastUpgrade.previous.backup =>
              bak.exists /\ bak.content = lastUpgrade.previous.before.content

\* C25 witness: a file with an extra column was migrated with a backup and
\* upgradeCsvHeaders was called on it again.
C25_Witness ==
    /\ lastUpgrade.previous.result = "changed"
    /\ lastUpgrade.previous.backup
    /\ lastUpgrade.result = "already-canonical"
    /\ Len(lastUpgrade.headers) > 8
    /\ bak.exists /\ bak.content # csv.content

-----------------------------------------------------------------------------
(* TimingEngine claims: the durations handed to the page *)

\* C26: on the named, the explicit and the backoff path, under every setting
\* of the scale, each duration passed to page.waitForTimeout is a whole number
\* of milliseconds, finite and not negative.
C26_WaitsAreWholeNonNegative ==
    \A k \in 1..Len(dwaits) :
        /\ dwaits[k].ms \in Nat
        /\ dwaits[k].ms < Infinity

-----------------------------------------------------------------------------
(* JobStore claims: cleanup and the startup tasks *)

\* C21: cleanup(maxAgeDays) deletes a job's persisted file only if the job is
\* in a terminal state (completed, failed, cancelled) and its age exceeds
\* maxAgeDays; the file of a running or queued job is never deleted, whatever
\* its age.
C21_CleanupOnlyOldTerminal ==
    [][\A id \in JobIds :
          (disk[id] # NoJob /\ disk'[id] = NoJob) =>
              /\ disk[id].status \in {"completed", "failed", "cancelled"}
              /\ clock - disk[id].createdAt > maxAgeDays
              /\ disk[id].status \notin {"running", "queued"}]_vars

\* C21 witness: cleanup(3) has finished, it has deleted the file of a job,
\* and the file of a running job aged 10 days is still there.
C21_Witness ==
    /\ cleanupPc = "done"
    /\ maxAgeDays = 3
    /\ \E d \in deleted : disk[d.id] = NoJob
    /\ \E id \in JobIds :
          /\ disk[id] # NoJob
          /\ disk[id].status = "running"
          /\ clock - disk[id].createdAt = 10

\* C22: at startup ensureJobsDir has completed before loadJobs scans the jobs
\* directory, and loadJobs has finished loading before cleanupOldJobs deletes
\* any job file.
C22_StartupTasksInOrder ==
    /\ loadPc \in {"scanned", "done", "failed"} => ensurePc = "done"
    /\ cleanupPc \in {"scanned", "done", "failed"} => loadPc \in {"done", "failed"}
    /\ \A d \in deleted : d.loadPc \in {"done", "failed"}

====
